---- MODULE Spec2Model ----
(***************************************************************************)
(* Model of the flexiv_omni_teleop example programs:                       *)
(*   basic_teleop.cpp            one session, scheduler, console task      *)
(*   basic_cart_teleop.cpp       two sessions, scheduler                   *)
(*   basic_free_space_motion_teleop.cpp   one session, blocking run()      *)
(* The SDK (Robot2RobotTeleop, Scheduler) is closed: its calls are         *)
(* recorded, their results (success / exception, operational / fault) are  *)
(* inputs.                                                                 *)
(***************************************************************************)
EXTENDS Integers, Sequences, FiniteSets, TLC

\* ------------------------------------------------------------------ bounds
\* Console lines read in one run.
MaxCmds == 2
\* Largest elapsed time, in whole seconds, handed to the axis-lock script.
MaxElapsed == 100

\* ---------------------------------------------------------------- examples
Examples == {"teleop", "cart", "free"}

\* The session objects each main() constructs, in construction order.
Sessions(ex) ==
    IF ex = "cart" THEN <<"teleop_left", "teleop_right">> ELSE <<"teleop">>

SessionSet(ex) == {Sessions(ex)[i] : i \in 1..Len(Sessions(ex))}

\* ------------------------------------------------------------- command line
\* An option table with entries for the second pair of serial numbers.
k_longOptionsWithSecondPair == {"l", "r", "c", "L", "R"}

\* The val column of k_longOptions (the same table in all three examples).
k_longOptions == {"l", "r", "c"}

\* What one command-line option can look like: the five letters the examples
\* switch on, and "?" for anything else.
ArgTokens == {"l", "r", "c", "L", "R", "?"}

\* getopt_long_only with an empty short-option string: an option matching
\* (a prefix of) a table entry returns that entry's val, anything else '?'.
getopt_long_only(tok) == IF tok \in k_longOptions THEN tok ELSE "?"

\* The case labels of the switch in main().
OptionCases(ex) ==
    IF ex = "cart" THEN {"r", "l", "R", "L", "c"} ELSE {"r", "l", "c"}

\* An empty() test that leaves out licCfgPath.
RequiredValuesNoLicense(ex) ==
    IF ex = "cart" THEN {"l", "r", "L", "R"} ELSE {"l", "r"}

\* The strings main() tests with empty() after the loop.
RequiredValues(ex) ==
    IF ex = "cart" THEN {"l", "r", "L", "R", "c"} ELSE {"l", "r", "c"}

\* ------------------------------------------------------------------- setup
Call(c, s) == [call |-> c, s |-> s]

\* A main() that starts the scheduler without setting the wrench limit.
SetupStepsNoWrench(ex) ==
    IF ex = "cart"
    THEN << Call("construct", "teleop_left"), Call("construct", "teleop_right"),
            Call("enable", "teleop_left"), Call("enable", "teleop_right"),
            Call("init", "teleop_left"), Call("init", "teleop_right") >>
    ELSE << Call("construct", "teleop"), Call("enable", "teleop"),
            Call("init", "teleop"),
            Call("setLocalNullSpacePosture", "teleop"),
            Call("setRemoteNullSpacePosture", "teleop") >>

\* The calls of the try block of main() up to the scheduler (or run()), in
\* program order.
SetupSteps(ex) ==
    CASE ex = "teleop" ->
           << Call("construct", "teleop"), Call("enable", "teleop"),
              Call("init", "teleop"),
              Call("setLocalNullSpacePosture", "teleop"),
              Call("setRemoteNullSpacePosture", "teleop"),
              Call("setRemoteMaxWrench", "teleop") >>
      [] ex = "cart" ->
           << Call("construct", "teleop_left"), Call("construct", "teleop_right"),
              Call("enable", "teleop_left"), Call("enable", "teleop_right"),
              Call("init", "teleop_left"), Call("init", "teleop_right"),
              Call("setLocalNullSpacePosture", "teleop_left"),
              Call("setRemoteNullSpacePosture", "teleop_left"),
              Call("setLocalNullSpacePosture", "teleop_right"),
              Call("setRemoteNullSpacePosture", "teleop_right"),
              Call("setRemoteMaxWrench", "teleop_left"),
              Call("setRemoteMaxWrench", "teleop_right") >>
      [] OTHER ->
           << Call("construct", "teleop"), Call("enable", "teleop"),
              Call("init", "teleop"),
              Call("setLocalNullSpacePosture", "teleop"),
              Call("setRemoteNullSpacePosture", "teleop") >>

\* The tasks main() hands to AddTask, in program order.
TaskList(ex) ==
    CASE ex = "teleop" -> <<"HP periodic teleop", "LP nonPeriodic console">>
      [] ex = "cart" -> <<"HP periodic teleop">>
      [] OTHER -> <<>>

\* The catch clause of main(): log the exception, return 1.
CatchExit == 1

\* main() falling off the try block: return 0.
NormalExit == 0

\* --------------------------------------------------------------- scheduler
\* Scheduler::AddTask: a task is accepted only while the scheduler is Idle.
SchedulerAddTask(state, ts, t) == IF state = "Idle" THEN Append(ts, t) ELSE ts

\* Scheduler::Start: Idle -> Running.
SchedulerStart(state) == IF state = "Idle" THEN "Running" ELSE state

\* Scheduler going out of scope with main()'s try block: terminal.
SchedulerStop(state) == IF state = "none" THEN state ELSE "Stopped"

\* ------------------------------------------------------------ control tick
IsOp(s, r) == [op |-> "isOperational", s |-> s, ret |-> r]
Run(s, r) == [op |-> "run", s |-> s, ret |-> r]

\* A callback that logs the fault but does not throw, so run() follows.
periodicTeleopTaskNoThrow(teleop, status, runOk) ==
    [calls |-> <<IsOp(teleop, status[teleop]), Run(teleop, runOk[teleop])>>,
     stop |-> ~runOk[teleop]]

\* basic_teleop.cpp periodicTeleopTask(teleop): the calls made on the session
\* and whether the catch clause set g_stop_sched.  status[s] is what
\* s.isOperational() returns in this tick, runOk[s] whether s.run() returns
\* without throwing.
periodicTeleopTask(teleop, status, runOk) ==
    IF ~status[teleop]
    THEN [calls |-> <<IsOp(teleop, FALSE)>>, stop |-> TRUE]
    ELSE [calls |-> <<IsOp(teleop, TRUE), Run(teleop, runOk[teleop])>>,
          stop |-> ~runOk[teleop]]

\* basic_cart_teleop.cpp periodicTeleopTask(teleop1, teleop2), as written:
\* both operands of || call teleop1.isOperational(), and only teleop1.run()
\* is called.
periodicTeleopTask2(teleop1, teleop2, status, runOk) ==
    IF ~status[teleop1]
    THEN [calls |-> <<IsOp(teleop1, FALSE)>>, stop |-> TRUE]
    ELSE [calls |-> <<IsOp(teleop1, TRUE), IsOp(teleop1, TRUE),
                      Run(teleop1, runOk[teleop1])>>,
          stop |-> ~runOk[teleop1]]

\* The callback bound by AddTask in each example.
TickCallback(ex, status, runOk) ==
    IF ex = "cart"
    THEN periodicTeleopTask2("teleop_left", "teleop_right", status, runOk)
    ELSE periodicTeleopTask("teleop", status, runOk)

\* ----------------------------------------------------------------- console
CoordType == {"CD_WORLD", "CD_TCP"}
Axes == 0..2
AxisLockDefs ==
    [coord : CoordType, trans_axis_lock_list_ : [Axes -> BOOLEAN],
     ori_axis_lock_list_ : [Axes -> BOOLEAN]]

AllFree == [a \in Axes |-> FALSE]

WorldKeys == {"x", "y", "z", "q", "w", "e"}
TcpKeys == {"X", "Y", "Z", "Q", "W", "E"}
ToggleKeys == WorldKeys \cup TcpKeys
\* userInput[0]: a toggle key, 'm', the terminating NUL of an empty line, or
\* any other character ("?").
Keys == ToggleKeys \cup {"m", "nul", "?"}

\* A case that sets the lock instead of inverting it.
FlipTransSet(cmd, i, coord) ==
    [cmd EXCEPT !.trans_axis_lock_list_[i] = TRUE, !.coord = coord]

FlipTrans(cmd, i, coord) ==
    [cmd EXCEPT !.trans_axis_lock_list_[i] = ~cmd.trans_axis_lock_list_[i],
                !.coord = coord]

\* A rotation case pasted from a translation case without renaming the list.
FlipOriPasted(cmd, i, coord) ==
    [cmd EXCEPT !.trans_axis_lock_list_[i] = ~cmd.trans_axis_lock_list_[i],
                !.coord = coord]

FlipOri(cmd, i, coord) ==
    [cmd EXCEPT !.ori_axis_lock_list_[i] = ~cmd.ori_axis_lock_list_[i],
                !.coord = coord]

\* The twelve toggle cases of the switch: flip one entry, set coord.
ToggleCase(cmd, c) ==
    CASE c = "x" -> FlipTrans(cmd, 0, "CD_WORLD")
      [] c = "y" -> FlipTrans(cmd, 1, "CD_WORLD")
      [] c = "z" -> FlipTrans(cmd, 2, "CD_WORLD")
      [] c = "q" -> FlipOri(cmd, 0, "CD_WORLD")
      [] c = "w" -> FlipOri(cmd, 1, "CD_WORLD")
      [] c = "e" -> FlipOri(cmd, 2, "CD_WORLD")
      [] c = "X" -> FlipTrans(cmd, 0, "CD_TCP")
      [] c = "Y" -> FlipTrans(cmd, 1, "CD_TCP")
      [] c = "Z" -> FlipTrans(cmd, 2, "CD_TCP")
      [] c = "Q" -> FlipOri(cmd, 0, "CD_TCP")
      [] c = "W" -> FlipOri(cmd, 1, "CD_TCP")
      [] c = "E" -> FlipOri(cmd, 2, "CD_TCP")

\* A switch in which case 'm' lacks its break and falls into case 'x'.
ConsoleSwitchFallThrough(cmd, c) ==
    CASE c = "m" -> [cmd |-> ToggleCase(cmd, "x"), report |-> "help"]
      [] c \in ToggleKeys -> [cmd |-> ToggleCase(cmd, c), report |-> "none"]
      [] OTHER -> [cmd |-> cmd, report |-> "warn"]

\* The switch (userInput[0]) of periodicConsoleTask: the new cmd and what was
\* logged ("help", "warn" for the Invalid command warning, "none").
ConsoleSwitch(cmd, c) ==
    CASE c = "m" -> [cmd |-> cmd, report |-> "help"]
      [] c \in ToggleKeys -> [cmd |-> ToggleCase(cmd, c), report |-> "none"]
      [] OTHER -> [cmd |-> cmd, report |-> "warn"]

\* What follows the switch in the loop body: the states handed to
\* teleop.setLocalAxisLockCmd for this line.
ConsolePush(cmd, c) == <<cmd>>

\* ------------------------------------------------------- axis-lock script
\* A brace list read as free flags: every entry inverted.
LockListInverted(x, y, z) ==
    [a \in Axes |-> CASE a = 0 -> ~x [] a = 1 -> ~y [] OTHER -> ~z]

\* A brace list {x, y, z} assigned to a lock list, read as locked flags.
LockList(x, y, z) == [a \in Axes |-> CASE a = 0 -> x [] a = 1 -> y [] OTHER -> z]

\* The three assignments of one branch with the two lists exchanged.
AxisCmdExchanged(coord, ori, trans) ==
    [coord |-> coord, trans_axis_lock_list_ |-> ori, ori_axis_lock_list_ |-> trans]

\* The three assignments of one branch of testAixsLock.
AxisCmdOf(coord, ori, trans) ==
    [coord |-> coord, trans_axis_lock_list_ |-> trans, ori_axis_lock_list_ |-> ori]

\* testAixsLock: the AxisCmd passed to setLocalAxisLockCmd for an elapsed time
\* of e whole seconds (the if / else if ladder, in its order).
testAixsLock(e) ==
    CASE e <= 5 ->
           AxisCmdOf("CD_TCP", LockList(TRUE, TRUE, TRUE), LockList(FALSE, TRUE, TRUE))
      [] e > 5 /\ e <= 10 ->
           AxisCmdOf("CD_TCP", LockList(TRUE, TRUE, TRUE), LockList(TRUE, FALSE, TRUE))
      [] e > 10 /\ e <= 15 ->
           AxisCmdOf("CD_TCP", LockList(TRUE, TRUE, TRUE), LockList(TRUE, TRUE, FALSE))
      [] e > 15 /\ e <= 20 ->
           AxisCmdOf("CD_TCP", LockList(FALSE, TRUE, TRUE), LockList(TRUE, TRUE, TRUE))
      [] e > 20 /\ e <= 25 ->
           AxisCmdOf("CD_TCP", LockList(TRUE, FALSE, TRUE), LockList(TRUE, TRUE, TRUE))
      [] e > 25 /\ e <= 30 ->
           AxisCmdOf("CD_TCP", LockList(TRUE, TRUE, FALSE), LockList(TRUE, TRUE, TRUE))
      [] e > 30 /\ e <= 35 ->
           AxisCmdOf("CD_TCP", LockList(FALSE, FALSE, FALSE),
                     LockList(FALSE, FALSE, FALSE))
      [] e > 35 /\ e <= 40 ->
           AxisCmdOf("CD_WORLD", LockList(TRUE, TRUE, TRUE), LockList(FALSE, TRUE, TRUE))
      [] e > 40 /\ e <= 45 ->
           AxisCmdOf("CD_WORLD", LockList(TRUE, TRUE, TRUE), LockList(TRUE, FALSE, TRUE))
      [] e > 45 /\ e <= 50 ->
           AxisCmdOf("CD_WORLD", LockList(TRUE, TRUE, TRUE), LockList(TRUE, TRUE, FALSE))
      [] e > 50 /\ e <= 55 ->
           AxisCmdOf("CD_WORLD", LockList(FALSE, TRUE, TRUE), LockList(TRUE, TRUE, TRUE))
      [] e > 55 /\ e <= 60 ->
           AxisCmdOf("CD_WORLD", LockList(TRUE, FALSE, TRUE), LockList(TRUE, TRUE, TRUE))
      [] e > 60 /\ e <= 65 ->
           AxisCmdOf("CD_WORLD", LockList(TRUE, TRUE, FALSE), LockList(TRUE, TRUE, TRUE))
      [] OTHER ->
           AxisCmdOf("CD_WORLD", LockList(FALSE, FALSE, FALSE),
                     LockList(FALSE, FALSE, FALSE))

\* -------------------------------------------------------------------- state
VARIABLES
    example,      \* which program runs
    pc,           \* main(): "parse", "setup", "sched", "addTask", "start",
                  \*         "inStart", "wait", "run", "exited"
    opt,          \* what getopt_long_only returned last ("none" before the
                  \* first call, "-1" at the end of the options)
    opts,         \* the option values that are non-empty strings
    helpPrinted,  \* printHelp() was called
    exitCode,     \* main()'s return value, -1 while running
    step,         \* number of setup calls completed
    trace,        \* the calls main() made on the sessions: [call, s, ok]
    sched,        \* "none", "Idle", "Running", "Stopped"
    tasks,        \* the tasks the scheduler accepted
    g_stop_sched, \* the shared stop flag
    tick,         \* the last control tick: [status, calls]
    runErrored,   \* some tick's run() has thrown
    cpc,          \* periodicConsoleTask: "idle", "test", "read", "done"
    cmd,          \* its local AxisLockDefs
    sessLock,     \* the session's axis lock state
    cmdHist,      \* the lines it processed: [key, before, report, push]
    addTaskRejected, \* the scheduler has turned down an AddTask
    elapsedTimeSec \* testAixsLock: the elapsed seconds of its last call, -1
                  \* before the first

vars == <<example, pc, opt, opts, helpPrinted, exitCode, step, trace, sched, tasks,
          g_stop_sched, tick, runErrored, cpc, cmd, sessLock, cmdHist,
          addTaskRejected, elapsedTimeSec>>

mainVars == <<pc, opt, opts, helpPrinted, exitCode, step, trace>>
schedVars == <<sched, tasks>>
tickVars == <<g_stop_sched, tick, runErrored>>
consoleVars == <<cpc, cmd, sessLock, cmdHist>>

NoTick == [status |-> <<>>, calls |-> <<>>]

\* Some control tick has run.
Ticked == tick # NoTick

\* The lock state of a freshly constructed session: all axes free.
InitialLock == {[coord |-> c, trans_axis_lock_list_ |-> AllFree,
                 ori_axis_lock_list_ |-> AllFree] : c \in CoordType}

InitCommon ==
    /\ elapsedTimeSec = -1
    /\ addTaskRejected = FALSE
    /\ helpPrinted = FALSE
    /\ exitCode = -1
    /\ step = 0
    /\ trace = <<>>
    /\ sched = "none"
    /\ tasks = <<>>
    /\ g_stop_sched = FALSE
    /\ tick = NoTick
    /\ runErrored = FALSE
    /\ cpc = "idle"
    /\ sessLock \in InitialLock
    /\ cmd = sessLock
    /\ cmdHist = <<>>

\* Process start of any of the three examples.
Init ==
    /\ example \in Examples
    /\ pc = "parse"
    /\ opt = "none"
    /\ opts = {}
    /\ InitCommon

\* ------------------------------------------------------------------ main()
\* One iteration of the getopt_long_only loop that returns an option.
ParseOption ==
    /\ pc = "parse"
    /\ \E tok \in ArgTokens, nonempty \in BOOLEAN :
         /\ opt' = getopt_long_only(tok)
         /\ IF opt' \in OptionCases(example)
            THEN /\ opts' = IF nonempty THEN opts \cup {opt'} ELSE opts \ {opt'}
                 /\ UNCHANGED <<pc, helpPrinted, exitCode>>
            ELSE /\ helpPrinted' = TRUE
                 /\ pc' = "exited"
                 /\ exitCode' = 1
                 /\ UNCHANGED opts
    /\ UNCHANGED <<example, elapsedTimeSec, addTaskRejected, step, trace, schedVars, tickVars, consoleVars>>

\* getopt_long_only returns -1: the empty() test after the loop.
ParseEnd ==
    /\ pc = "parse"
    /\ opt' = "-1"
    /\ IF RequiredValues(example) \subseteq opts
       THEN /\ pc' = "setup"
            /\ UNCHANGED <<helpPrinted, exitCode>>
       ELSE /\ helpPrinted' = TRUE
            /\ pc' = "exited"
            /\ exitCode' = 1
    /\ UNCHANGED <<example, elapsedTimeSec, addTaskRejected, opts, step, trace, schedVars, tickVars,
                   consoleVars>>

\* Where main() goes once the last setup call has returned.
AfterSetup(ex) == IF ex = "free" THEN "run" ELSE "sched"

\* A try block that swallows the exception and goes on with the next call.
SetupOutcomeSwallow(ex, st, ok) ==
    [step |-> st + 1,
     pc |-> IF st + 1 = Len(SetupSteps(ex)) THEN AfterSetup(ex) ELSE "setup",
     exitCode |-> -1]

\* The effect of one setup call on main(): on to the next statement, or, on
\* an exception, to the catch clause and out.
SetupOutcome(ex, st, ok) ==
    IF ok
    THEN [step |-> st + 1,
          pc |-> IF st + 1 = Len(SetupSteps(ex)) THEN AfterSetup(ex) ELSE "setup",
          exitCode |-> -1]
    ELSE [step |-> st, pc |-> "exited", exitCode |-> CatchExit]

\* The next call of the try block; an exception leaves the block for the
\* catch clause.
SetupCall ==
    /\ pc = "setup"
    /\ step < Len(SetupSteps(example))
    /\ \E ok \in BOOLEAN :
         LET c == SetupSteps(example)[step + 1]
             o == SetupOutcome(example, step, ok) IN
         /\ trace' = Append(trace, [call |-> c.call, s |-> c.s, ok |-> ok])
         /\ step' = o.step
         /\ pc' = o.pc
         /\ exitCode' = o.exitCode
    /\ UNCHANGED <<example, elapsedTimeSec, addTaskRejected, opt, opts, helpPrinted, schedVars, tickVars, consoleVars>>

\* flexiv::omni::teleop::Scheduler scheduler;
CreateScheduler ==
    /\ pc = "sched"
    /\ sched' = "Idle"
    /\ pc' = "addTask"
    /\ UNCHANGED <<example, elapsedTimeSec, addTaskRejected, opt, opts, helpPrinted, exitCode, step, trace, tasks,
                   tickVars, consoleVars>>

\* A main() that calls Start() right after the first AddTask.
AfterAddTaskStartsEarly(ex, n) == "start"

\* Where main() goes after its n-th AddTask: the next AddTask, or Start().
AfterAddTask(ex, n) == IF n = Len(TaskList(ex)) THEN "start" ELSE "addTask"

\* scheduler.AddTask(...), once per task of the example.
AddTask ==
    /\ pc = "addTask"
    /\ Len(tasks) < Len(TaskList(example))
    /\ tasks' = SchedulerAddTask(sched, tasks, TaskList(example)[Len(tasks) + 1])
    /\ pc' = AfterAddTask(example, Len(tasks'))
    /\ UNCHANGED <<example, elapsedTimeSec, addTaskRejected, opt, opts, helpPrinted, exitCode, step, trace, sched,
                   tickVars, consoleVars>>

\* scheduler.Start() is called.
Start ==
    /\ pc = "start"
    /\ sched' = SchedulerStart(sched)
    /\ pc' = "inStart"
    /\ UNCHANGED <<example, elapsedTimeSec, addTaskRejected, opt, opts, helpPrinted, exitCode, step, trace, tasks,
                   tickVars, consoleVars>>

\* scheduler.Start() returns to main().
StartReturn ==
    /\ pc = "inStart"
    /\ pc' = "wait"
    /\ UNCHANGED <<example, elapsedTimeSec, addTaskRejected, opt, opts, helpPrinted, exitCode, step, trace,
                   schedVars, tickVars, consoleVars>>

\* A wait loop that never looks at the flag.
MainKeepsWaitingForever(flag) == TRUE

\* The test of while (!g_stop_sched) in main(): true when the flag is clear.
MainKeepsWaiting(flag) == ~flag

\* One round of the wait loop: sleep again, or leave the try block (the
\* scheduler and the sessions go out of scope) and return.
MainWait ==
    /\ pc = "wait"
    /\ IF MainKeepsWaiting(g_stop_sched)
       THEN UNCHANGED <<pc, exitCode, sched>>
       ELSE /\ pc' = "exited"
            /\ exitCode' = NormalExit
            /\ sched' = SchedulerStop(sched)
    /\ UNCHANGED <<example, elapsedTimeSec, addTaskRejected, opt, opts, helpPrinted, step, trace, tasks, tickVars,
                   consoleVars>>

\* basic_free_space_motion_teleop.cpp: teleop.run(isBlocking) inside the try
\* block.
RunBlocking ==
    /\ pc = "run"
    /\ \E ok \in BOOLEAN :
         /\ trace' = Append(trace, [call |-> "run", s |-> "teleop", ok |-> ok])
         /\ exitCode' = IF ok THEN NormalExit ELSE CatchExit
    /\ pc' = "exited"
    /\ UNCHANGED <<example, elapsedTimeSec, addTaskRejected, opt, opts, helpPrinted, step, schedVars, tickVars,
                   consoleVars>>

\* ------------------------------------------------------------ control task
\* The scheduler fires the 1 ms task: one call of the bound callback.
\* A teleop callback that reads the console's line itself.
periodicTeleopTaskWaitsOnInput(c) == c = "read"

\* The teleop callback waits for user input: it has no read of std::cin,
\* whatever the console task is doing.
periodicTeleopTaskWaits(c) == FALSE

\* A callback that stores the outcome of the tick in the flag.
StopFlagAfterTickStoresOutcome(stop, flag) == stop

\* g_stop_sched once the callback has returned: the catch clause stores true,
\* nothing else in the callback writes the flag.
StopFlagAfterTick(stop, flag) == IF stop THEN TRUE ELSE flag

ControlTick ==
    /\ sched = "Running"
    /\ ~periodicTeleopTaskWaits(cpc)
    /\ \E i \in 1..Len(tasks) : tasks[i] = "HP periodic teleop"
    /\ \E status \in [SessionSet(example) -> BOOLEAN],
          runOk \in [SessionSet(example) -> BOOLEAN] :
         LET r == TickCallback(example, status, runOk) IN
         /\ tick' = [status |-> status, calls |-> r.calls]
         /\ g_stop_sched' = StopFlagAfterTick(r.stop, g_stop_sched)
         /\ runErrored' = (runErrored \/
                \E k \in 1..Len(r.calls) :
                   r.calls[k].op = "run" /\ ~r.calls[k].ret)
    /\ UNCHANGED <<example, elapsedTimeSec, addTaskRejected, mainVars, schedVars, consoleVars>>

\* ------------------------------------------------------------ console task
\* A loop condition with the negation left out.
ConsoleKeepsReadingInverted(flag) == flag

\* A loop that never tests the flag.
ConsoleKeepsReadingAlways(flag) == TRUE

\* while (!g_stop_sched)
ConsoleKeepsReading(flag) == ~flag

\* The scheduler calls periodicConsoleTask: getLocalAxisLockState(cmd).
ConsoleStart ==
    /\ sched = "Running"
    /\ \E i \in 1..Len(tasks) : tasks[i] = "LP nonPeriodic console"
    /\ cpc \in {"idle", "done"}
    /\ cmd' = sessLock
    /\ cpc' = "test"
    /\ UNCHANGED <<example, elapsedTimeSec, addTaskRejected, mainVars, schedVars, tickVars, sessLock, cmdHist>>

\* while (!g_stop_sched): enter the body (and block in getline) or return.
ConsoleTest ==
    /\ sched = "Running"
    /\ cpc = "test"
    /\ cpc' = IF ConsoleKeepsReading(g_stop_sched) THEN "read" ELSE "done"
    /\ UNCHANGED <<example, elapsedTimeSec, addTaskRejected, mainVars, schedVars, tickVars, cmd, sessLock, cmdHist>>

\* getline returns a line: the switch, setLocalAxisLockCmd, the log lines.
ConsoleCommand ==
    /\ sched = "Running"
    /\ cpc = "read"
    /\ Len(cmdHist) < MaxCmds
    /\ \E c \in Keys :
         LET r == ConsoleSwitch(cmd, c)
             p == ConsolePush(r.cmd, c) IN
         /\ cmd' = r.cmd
         /\ sessLock' = IF p = <<>> THEN sessLock ELSE p[Len(p)]
         /\ cmdHist' = Append(cmdHist, [key |-> c, before |-> cmd,
                                        report |-> r.report, push |-> p,
                                        stopped |-> g_stop_sched])
    /\ cpc' = "test"
    /\ UNCHANGED <<example, elapsedTimeSec, addTaskRejected, mainVars, schedVars, tickVars>>

\* ----------------------------------------------------------- specifications
Next ==
    \/ ParseOption
    \/ ParseEnd
    \/ SetupCall
    \/ CreateScheduler
    \/ AddTask
    \/ Start
    \/ StartReturn
    \/ MainWait
    \/ RunBlocking
    \/ ControlTick
    \/ ConsoleStart
    \/ ConsoleTest
    \/ ConsoleCommand

Spec == Init /\ [][Next]_vars

\* The scheduler lets Start() return and main() runs its wait loop.
SpecFair == Spec /\ WF_vars(StartReturn) /\ WF_vars(MainWait)

\* basic_cart_teleop.cpp from the entry of main()'s try block, with the five
\* option values taken as given.
InitCart ==
    /\ example = "cart"
    /\ pc = "setup"
    /\ opt = "-1"
    /\ opts = RequiredValues("cart")
    /\ InitCommon

NextCart ==
    \/ SetupCall
    \/ CreateScheduler
    \/ AddTask
    \/ Start
    \/ StartReturn
    \/ MainWait
    \/ ControlTick

SpecCart == InitCart /\ [][NextCart]_vars

\* The three examples from process start, and the dual-arm main() also from
\* the entry of its try block.
SpecSetup == (Init \/ InitCart) /\ [][Next]_vars

\* basic_teleop.cpp at the first loop test of periodicConsoleTask, for every
\* value getLocalAxisLockState can have returned.
InitConsole ==
    /\ example = "teleop"
    /\ pc = "inStart"
    /\ opt = "-1"
    /\ opts = RequiredValues("teleop")
    /\ elapsedTimeSec = -1
    /\ addTaskRejected = FALSE
    /\ helpPrinted = FALSE
    /\ exitCode = -1
    /\ step = Len(SetupSteps("teleop"))
    /\ trace = [i \in 1..Len(SetupSteps("teleop")) |->
                  [call |-> SetupSteps("teleop")[i].call,
                   s |-> SetupSteps("teleop")[i].s, ok |-> TRUE]]
    /\ sched = "Running"
    /\ tasks = TaskList("teleop")
    /\ g_stop_sched = FALSE
    /\ tick = NoTick
    /\ runErrored = FALSE
    /\ cpc = "test"
    /\ cmd \in AxisLockDefs
    /\ sessLock = cmd
    /\ cmdHist = <<>>

NextConsole ==
    \/ ConsoleTest
    \/ ConsoleCommand

SpecConsole == InitConsole /\ [][NextConsole]_vars

\* basic_free_space_motion_teleop.cpp with its setup done, for every AxisCmd
\* the caller of testAixsLock can hold.
InitScript ==
    /\ example = "free"
    /\ pc = "run"
    /\ opt = "-1"
    /\ opts = RequiredValues("free")
    /\ elapsedTimeSec = -1
    /\ addTaskRejected = FALSE
    /\ helpPrinted = FALSE
    /\ exitCode = -1
    /\ step = Len(SetupSteps("free"))
    /\ trace = [i \in 1..Len(SetupSteps("free")) |->
                  [call |-> SetupSteps("free")[i].call,
                   s |-> SetupSteps("free")[i].s, ok |-> TRUE]]
    /\ sched = "none"
    /\ tasks = <<>>
    /\ g_stop_sched = FALSE
    /\ tick = NoTick
    /\ runErrored = FALSE
    /\ cpc = "idle"
    /\ cmd \in AxisLockDefs
    /\ sessLock \in InitialLock
    /\ cmdHist = <<>>

\* One call of testAixsLock(teleop, AxisCmd, startTimeSec): the elapsed whole
\* seconds, the branch's assignments, setLocalAxisLockCmd.
TestAxisLock ==
    /\ pc = "run"
    /\ \E e \in 0..MaxElapsed :
         /\ elapsedTimeSec' = e
         /\ cmd' = testAixsLock(e)
         /\ sessLock' = testAixsLock(e)
    /\ UNCHANGED <<example, addTaskRejected, mainVars, schedVars, tickVars, cpc,
                   cmdHist>>

NextScript == TestAxisLock

SpecScript == InitScript /\ [][NextScript]_vars

\* A further AddTask on a scheduler that Start() was called on.
LateAddTask ==
    /\ sched \in {"Running", "Stopped"}
    /\ \E t \in {"HP periodic teleop", "LP nonPeriodic console"} :
         /\ tasks' = SchedulerAddTask(sched, tasks, t)
         /\ addTaskRejected' = (addTaskRejected \/ tasks' = tasks)
    /\ UNCHANGED <<example, elapsedTimeSec, mainVars, sched, tickVars, consoleVars>>

NextSched ==
    \/ Next
    \/ LateAddTask

\* The examples, with callers that try AddTask after Start().
SpecSched == Init /\ [][NextSched]_vars

\* ------------------------------------------------------------------- claims
TickCalled(op) == {k \in 1..Len(tick.calls) : tick.calls[k].op = op}

\* C1: in a single-session tick in which isOperational() returned false,
\* run() is not called and the stop flag is true when the tick has returned;
\* every run() of a tick comes after an isOperational() of the same tick, on
\* the same session, that returned true.
C1_FaultTickDoesNotRun ==
    (example = "teleop" /\ Ticked) =>
       /\ (\E k \in TickCalled("isOperational") : ~tick.calls[k].ret)
             => (TickCalled("run") = {} /\ g_stop_sched)
       /\ \A k \in TickCalled("run") :
             \E j \in TickCalled("isOperational") :
                j < k /\ tick.calls[j].s = tick.calls[k].s /\ tick.calls[j].ret

C1_Witness ==
    /\ example = "teleop"
    /\ Ticked
    /\ \E k \in TickCalled("isOperational") : ~tick.calls[k].ret
    /\ g_stop_sched

\* C2: once run() has raised an error in a control tick, no further control
\* tick occurs (neither isOperational() nor run() is called again).
C2_NoTickAfterRunError == [][runErrored => tick' = tick]_vars

\* C3: a dual-arm tick in which the first session reports operational and the
\* second one does not calls no run() and sets the stop flag.
C3_SecondSessionFaultStops ==
    (/\ example = "cart"
     /\ Ticked
     /\ tick.status["teleop_left"]
     /\ ~tick.status["teleop_right"])
    => (TickCalled("run") = {} /\ g_stop_sched)

\* C4: a dual-arm tick in which both sessions are operational calls run() on
\* both, the first-bound session before the second-bound one.
C4_BothSessionsRunInOrder ==
    (/\ example = "cart"
     /\ Ticked
     /\ tick.status["teleop_left"]
     /\ tick.status["teleop_right"])
    => \E j, k \in TickCalled("run") :
          /\ j < k
          /\ tick.calls[j].s = "teleop_left"
          /\ tick.calls[k].s = "teleop_right"

Returned(c, s) ==
    \E i \in 1..Len(trace) : trace[i] = [call |-> c, s |-> s, ok |-> TRUE]

StartupCalls ==
    {"enable", "init", "setLocalNullSpacePosture", "setRemoteNullSpacePosture",
     "setRemoteMaxWrench"}

\* C5: when scheduler.Start() is invoked, and hence at every control tick,
\* enable() and init() have returned successfully and the two posture calls
\* and the wrench call have been issued on every constructed session.
C5_StartupBeforeStart ==
    (pc = "start" \/ sched \in {"Running", "Stopped"} \/ Ticked) =>
       \A s \in SessionSet(example) : \A c \in StartupCalls : Returned(c, s)

C5_Witness ==
    /\ example = "teleop"
    /\ sched = "Running"
    /\ Ticked
    /\ Returned("setRemoteMaxWrench", "teleop")

SetupFailures == {i \in 1..Len(trace) : trace[i].call # "run" /\ ~trace[i].ok}

\* C6: after a setup call (construction, enable, init, posture, wrench) has
\* raised an error, no later call is made on any session, no task is added,
\* the scheduler is never started, run() is never called, and the program
\* has exited with status 1.
C6_SetupFailureAborts ==
    \A i \in SetupFailures :
       /\ i = Len(trace)
       /\ tasks = <<>>
       /\ sched \notin {"Running", "Stopped"}
       /\ ~Ticked
       /\ \A j \in 1..Len(trace) : trace[j].call # "run"
       /\ pc = "exited"
       /\ exitCode = 1

C6_Witness ==
    /\ example = "teleop"
    /\ \E i \in SetupFailures : trace[i].call = "init"
    /\ exitCode = 1

Locks(c) ==
    [i \in 0..5 |-> IF i < 3 THEN c.trans_axis_lock_list_[i]
                             ELSE c.ori_axis_lock_list_[i - 3]]

\* The boolean and the frame a toggle key names.
KeyLock(k) ==
    CASE k \in {"x", "X"} -> 0 [] k \in {"y", "Y"} -> 1 [] k \in {"z", "Z"} -> 2
      [] k \in {"q", "Q"} -> 3 [] k \in {"w", "W"} -> 4 [] OTHER -> 5

KeyFrame(k) == IF k \in WorldKeys THEN "CD_WORLD" ELSE "CD_TCP"

\* The state after the i-th processed line.
After(i) == IF i < Len(cmdHist) THEN cmdHist[i + 1].before ELSE cmd

\* C8: a toggle key changes exactly the lock boolean it names, leaves the
\* other five as they were, and sets the frame to the key's frame.
C8_ToggleFlipsExactlyOne ==
    \A i \in 1..Len(cmdHist) :
       cmdHist[i].key \in ToggleKeys =>
          /\ \A b \in 0..5 :
                (Locks(After(i))[b] # Locks(cmdHist[i].before)[b])
                   <=> (b = KeyLock(cmdHist[i].key))
          /\ After(i).coord = KeyFrame(cmdHist[i].key)

C8_Witness ==
    /\ Len(cmdHist) > 0
    /\ cmdHist[1].key = "Q"
    /\ cmdHist[1].before.coord = "CD_WORLD"
    /\ cmdHist[1].before.ori_axis_lock_list_[0]
    /\ ~After(1).ori_axis_lock_list_[0]
    /\ After(1).coord = "CD_TCP"

\* C9 as stated: a first character outside the twelve toggle keys leaves the
\* state unchanged, is reported as invalid, and pushes nothing to the
\* session.
C9_InvalidKeyPushesNothing ==
    \A i \in 1..Len(cmdHist) :
       cmdHist[i].key \notin ToggleKeys =>
          /\ After(i) = cmdHist[i].before
          /\ cmdHist[i].report = "warn"
          /\ cmdHist[i].push = <<>>

\* C9 as amended: a first character outside the twelve toggle keys leaves
\* the state unchanged; the invalid-command warning is logged unless the
\* character is 'm', which logs the help text; the unchanged state is passed
\* to setLocalAxisLockCmd once; and the console task is back in its loop.
C9_InvalidKeyIsNoOp ==
    \A i \in 1..Len(cmdHist) :
       cmdHist[i].key \notin ToggleKeys =>
          /\ After(i) = cmdHist[i].before
          /\ cmdHist[i].report = (IF cmdHist[i].key = "m" THEN "help" ELSE "warn")
          /\ cmdHist[i].push = <<cmdHist[i].before>>
          /\ (i = Len(cmdHist) => sessLock = cmdHist[i].before)
          /\ (cpc = "done" => g_stop_sched)

C9_Witness ==
    /\ Len(cmdHist) = 2
    /\ cmdHist[1].key = "nul"
    /\ cmdHist[1].report = "warn"
    /\ cmdHist[1].before.trans_axis_lock_list_[1]
    /\ cmdHist[2].key = "m"
    /\ cpc = "read"

\* C10: the same toggle key applied twice in a row leaves the translation
\* and rotation lock lists as they were before the first application.
C10_ToggleTwiceRestores ==
    \A i \in 1..(Len(cmdHist) - 1) :
       (cmdHist[i].key \in ToggleKeys /\ cmdHist[i + 1].key = cmdHist[i].key) =>
          /\ After(i + 1).trans_axis_lock_list_ = cmdHist[i].before.trans_axis_lock_list_
          /\ After(i + 1).ori_axis_lock_list_ = cmdHist[i].before.ori_axis_lock_list_

C10_Witness ==
    /\ Len(cmdHist) >= 2
    /\ cmdHist[1].key = "y"
    /\ cmdHist[2].key = "y"
    /\ ~cmdHist[1].before.trans_axis_lock_list_[1]
    /\ cmdHist[2].before.trans_axis_lock_list_[1]
    /\ ~After(2).trans_axis_lock_list_[1]

\* The schedule table: the frame and the one free lock (0..5, translation
\* then rotation) of window w = 1..13; window 7 frees all six.
TableFrame(w) == IF w <= 7 THEN "CD_TCP" ELSE "CD_WORLD"

TableFree(w) == IF w <= 7 THEN w - 1 ELSE w - 8

TableLocks(w) == [b \in 0..5 |-> w # 7 /\ b # TableFree(w)]

InTable(c, w) == c.coord = TableFrame(w) /\ Locks(c) = TableLocks(w)

NoneLocked(c) == \A b \in 0..5 : ~Locks(c)[b]

\* C11: for every whole second strictly inside window w the pushed state is
\* the table's entry for w (0 s counts for window 1), and after the sequence
\* (100 s) it is WORLD with nothing locked.
C11_ScriptFollowsTable ==
    elapsedTimeSec >= 0 =>
       /\ \A w \in 1..13 :
             (elapsedTimeSec > 5 * (w - 1) /\ elapsedTimeSec < 5 * w)
                => InTable(sessLock, w)
       /\ (elapsedTimeSec = 0 => InTable(sessLock, 1))
       /\ (elapsedTimeSec = 100
             => sessLock.coord = "CD_WORLD" /\ NoneLocked(sessLock))

C11_Witness ==
    /\ elapsedTimeSec = 63
    /\ sessLock.coord = "CD_WORLD"
    /\ sessLock.ori_axis_lock_list_ = LockList(TRUE, TRUE, FALSE)
    /\ cmd = sessLock

\* C12: at every boundary 5, 10, ..., 60 s the pushed state is the one of
\* the window that starts there, not of the window that ends there.
C12_BoundaryIsLaterWindow ==
    (elapsedTimeSec \in {5 * k : k \in 1..12})
       => InTable(sessLock, (elapsedTimeSec \div 5) + 1)

\* C13: for every elapsed time of 65 s or more the pushed state is WORLD
\* with all six locks false.
C13_AllFreeFrom65 ==
    elapsedTimeSec >= 65 => (sessLock.coord = "CD_WORLD" /\ NoneLocked(sessLock))

ExactlyOneFree(c) == Cardinality({b \in 0..5 : ~Locks(c)[b]}) = 1

RequiredByAll == {"l", "r", "c"}

\* C15: when option parsing is over with a required value missing, or
\* getopt_long_only has reported an unrecognized option, the usage text has
\* been printed, the program has exited with status 1, and no session was
\* constructed, enabled, initialised or run.
C15_BadCommandLineExits ==
    ((pc # "parse" /\ ~(RequiredByAll \subseteq opts)) \/ opt = "?") =>
       /\ helpPrinted
       /\ pc = "exited"
       /\ exitCode = 1
       /\ trace = <<>>
       /\ sched = "none"
       /\ ~Ticked

C15_Witness ==
    /\ example = "teleop"
    /\ opt = "-1"
    /\ opts = {"l", "r"}
    /\ helpPrinted
    /\ exitCode = 1

\* C16: the scheduler goes Idle -> Running -> Stopped; every AddTask of the
\* examples is made before Start(), so a started scheduler holds exactly the
\* example's tasks; an AddTask after Start() leaves the task set as it was;
\* Stopped is terminal.
C16_SchedulerLifecycle ==
    /\ [](sched \in {"Running", "Stopped"} => tasks = TaskList(example))
    /\ [][sched # "Idle" => tasks' = tasks]_vars
    /\ [][sched = "Running" => sched' \in {"Running", "Stopped"}]_vars
    /\ [][sched = "Stopped" => sched' = "Stopped"]_vars
    /\ [][sched' = "Running" => sched \in {"Idle", "Running"}]_vars

C16_Witness ==
    /\ example = "teleop"
    /\ sched = "Stopped"
    /\ addTaskRejected
    /\ tasks = <<"HP periodic teleop", "LP nonPeriodic console">>

\* C17: a lock set in one frame is not applied after a toggle in the other
\* frame: from an all-free state, a toggle of one axis followed by a toggle
\* of another axis in the other frame leaves the first axis free.
C17_FrameSwitchDropsLocks ==
    \A i \in 1..(Len(cmdHist) - 1) :
       LET k1 == cmdHist[i].key
           k2 == cmdHist[i + 1].key IN
       (/\ NoneLocked(cmdHist[i].before)
        /\ k1 \in ToggleKeys /\ k2 \in ToggleKeys
        /\ KeyFrame(k1) # KeyFrame(k2)
        /\ KeyLock(k1) # KeyLock(k2))
          => ~Locks(After(i + 1))[KeyLock(k1)]

C19_ConsoleEndsOnlyOnStopFlag ==
    /\ [](cpc = "done" => g_stop_sched)
    /\ [][(cpc # "done" /\ cpc' = "done") => (cpc = "test" /\ g_stop_sched)]_vars
    /\ [][g_stop_sched' # g_stop_sched => UNCHANGED consoleVars]_vars

C19_Witness ==
    /\ cpc = "done"
    /\ g_stop_sched
    /\ Len(cmdHist) = 1
    /\ ~cmdHist[1].stopped

\* The lines processed with the stop flag already true.
LinesAfterStop == {i \in 1..Len(cmdHist) : cmdHist[i].stopped}

\* C20: at most one line is processed, and at most one setLocalAxisLockCmd
\* pushed, after the stop flag has become true.
C20_AtMostOneCommandAfterStop ==
    /\ Cardinality(LinesAfterStop) <= 1
    /\ \A i \in LinesAfterStop : Len(cmdHist[i].push) <= 1

C20_Witness ==
    /\ cpc = "done"
    /\ Len(cmdHist) = 2
    /\ ~cmdHist[1].stopped
    /\ cmdHist[2].stopped
    /\ cmdHist[2].key = "x"
    /\ sessLock.trans_axis_lock_list_[0]

\* The calls of a tick in which the callback's catch clause ran: an
\* isOperational() that returned false, or a run() that threw.
TickFaulted(t) == \E k \in 1..Len(t.calls) : ~t.calls[k].ret

\* The stop flag starts false, is written only by the catch clause of the
\* control tick, which writes true, and is never reset.
StopFlagMonotonic ==
    /\ ~g_stop_sched
    /\ [][g_stop_sched => g_stop_sched']_vars
    /\ [][g_stop_sched' # g_stop_sched
            => (/\ g_stop_sched'
                /\ TickFaulted(tick')
                /\ UNCHANGED <<mainVars, schedVars, consoleVars>>)]_vars

\* C21 as stated: the flag is monotonic and every process run makes exactly
\* one false-to-true transition, so a run that has ended has raised it.
C21_StopFlagRaisedExactlyOnce ==
    /\ StopFlagMonotonic
    /\ [](pc = "exited" => g_stop_sched)

\* C21, amended: the flag is monotonic, so a process run makes at most one
\* false-to-true transition; a run of an example with a scheduler that has
\* ended with status 0 has made exactly one, a run that has ended with
\* status 1 may have made none.
C21_StopFlagRaisedAtMostOnce ==
    /\ StopFlagMonotonic
    /\ []((example # "free" /\ pc = "exited" /\ exitCode = 0) => g_stop_sched)

C21_Witness ==
    /\ example = "cart"
    /\ g_stop_sched
    /\ Ticked
    /\ ~TickFaulted(tick)
    /\ pc = "exited"
    /\ exitCode = 0

\* C22: in the dual-arm example no command line assigns the second pair of
\* serial numbers, main() never gets past the command line, and when it has
\* exited it has printed the usage and returned 1 with no session
\* constructed, no scheduler created and no control tick run.
C22_DualArmNeverPassesCommandLine ==
    example = "cart" =>
       /\ opts \cap {"L", "R"} = {}
       /\ pc \in {"parse", "exited"}
       /\ pc = "exited" => (helpPrinted /\ exitCode = 1)
       /\ trace = <<>>
       /\ sched = "none"
       /\ ~Ticked

C22_Witness ==
    /\ example = "cart"
    /\ opts = {"l", "r", "c"}
    /\ opt = "-1"
    /\ pc = "exited"
    /\ helpPrinted
    /\ exitCode = 1

====
